---- MODULE Spec2Model ----
(***************************************************************************)
(* Internship-application automation (staj-basvuru-otomasyonu).            *)
(*                                                                         *)
(* Two variants share one backing store (the company CSV):                 *)
(*   - the LLM variant: DataProcessor (pandas reader), EmailSender         *)
(*     (send_batch_emails) and the orchestrator InternshipAutomation.run;  *)
(*   - the static variant: StajBasvuruOtomasyonu (csv reader, batch loop   *)
(*     toplu_gonderim_yap, status write-back csv_durumunu_guncelle).       *)
(* The composition of one message (both variants) and the text generation  *)
(* of LLMManager are checked on their own, under SpecMessage and SpecLlm;  *)
(* SpecTwo runs two instances of the static variant on one store.          *)
(*                                                                         *)
(* Text is modelled as sequences of character tokens, so that strip,       *)
(* lower, substring search and the e-mail pattern are computed, not        *)
(* assumed.                                                                *)
(***************************************************************************)
EXTENDS Integers, Sequences, FiniteSets, TLC

(***************************************************************************)
(* Bounds of the model.                                                    *)
(***************************************************************************)
\* rows of the backing store drawn for the record readers
MaxRows == 3
\* recipients handed to send_batch_emails
MaxBatch == 3
\* prompts of the review gate that are counted
MaxPrompts == 2
\* largest delay_seconds drawn (the smallest is -1)
MaxDelay == 2
\* longest pause time.sleep accepts, in the model's time unit (CPython raises
\* OverflowError above the platform's time_t range, ValueError below zero)
SleepMax == 1

(***************************************************************************)
(* Text helpers (Python str methods, computed on character sequences).     *)
(***************************************************************************)
Whitespace == {" ", "\t", "\n"}

RECURSIVE lstrip(_)
lstrip(s) ==
    IF s # <<>> /\ Head(s) \in Whitespace THEN lstrip(Tail(s)) ELSE s

RECURSIVE rstrip(_)
rstrip(s) ==
    IF s # <<>> /\ s[Len(s)] \in Whitespace
    THEN rstrip(SubSeq(s, 1, Len(s) - 1))
    ELSE s

\* str.strip()
strip(s) == rstrip(lstrip(s))

\* str.lower() of one character; the dotted capital I lowers to "i" followed
\* by a combining dot (written here as the token "dot")
lower_char(c) ==
    CASE c = "A" -> <<"a">>
      [] c = "B" -> <<"b">>
      [] c = "D" -> <<"d">>
      [] c = "E" -> <<"e">>
      [] c = "G" -> <<"g">>
      [] c = "I" -> <<"i">>
      [] c = "L" -> <<"l">>
      [] c = "M" -> <<"m">>
      [] c = "N" -> <<"n">>
      [] c = "R" -> <<"r">>
      [] c = "S" -> <<"s">>
      [] c = "T" -> <<"t">>
      [] c = "H" -> <<"h">>
      [] c = "Y" -> <<"y">>
      [] c = "O:" -> <<"o:">>
      [] c = "I." -> <<"i", "dot">>
      [] OTHER -> <<c>>

\* str.lower()
RECURSIVE lower(_)
lower(s) == IF s = <<>> THEN <<>> ELSE lower_char(Head(s)) \o lower(Tail(s))

\* str.upper() on one character: "u:" is u with diaeresis, "c," is c with
\* cedilla; both the dotted and the dotless small i give "I"
upper_char(c) ==
    CASE c = "a" -> "A"
      [] c = "c" -> "C"
      [] c = "d" -> "D"
      [] c = "e" -> "E"
      [] c = "i" -> "I"
      [] c = "k" -> "K"
      [] c = "n" -> "N"
      [] c = "o" -> "O"
      [] c = "r" -> "R"
      [] c = "t" -> "T"
      [] c = "u" -> "U"
      [] c = "u:" -> "U:"
      [] c = "c," -> "C,"
      [] OTHER -> c

\* str.upper()
RECURSIVE upper(_)
upper(s) == IF s = <<>> THEN <<>> ELSE <<upper_char(Head(s))>> \o upper(Tail(s))

\* the Python test  sub in s
contains(s, sub) ==
    \E k \in 0..(Len(s) - Len(sub)) : SubSeq(s, k + 1, k + Len(sub)) = sub

AllIn(s, S) == \A k \in 1..Len(s) : s[k] \in S

(***************************************************************************)
(* Literals of the source.                                                 *)
(***************************************************************************)
\* 'TalepForm', 'Talep Form'
TalepForm == <<"T", "a", "l", "e", "p", "F", "o", "r", "m">>
Talep_Form == <<"T", "a", "l", "e", "p", " ", "F", "o", "r", "m">>
\* 'gonderildi' (o: stands for o with diaeresis)
gonderildi == <<"g", "o:", "n", "d", "e", "r", "i", "l", "d", "i">>
\* 'nan'
nan_str == <<"n", "a", "n">>
\* a missing value of a DataFrame cell (NaN / pd.NA)
NaN == <<"<NA>">>
\* 'Bilinmeyen'
Bilinmeyen == <<"B", "i", "l", "i", "n", "m", "e", "y", "e", "n">>

(***************************************************************************)
(* Rows of the backing store (cells are raw text).                         *)
(*   short    : the line has fewer cells than the header (Notlar missing)  *)
(*   overflow : the line has more cells than the header                    *)
(***************************************************************************)
Row(n, m, d, nt) ==
    [sirket_adi |-> n, mail |-> m, durum |-> d, notlar |-> nt,
     short |-> FALSE, overflow |-> FALSE]

nA == <<"A">>
nB == <<"B">>
nBlank == <<" ", " ">>
nNan == <<" ", "n", "a", "n">>
m1 == <<"a", "@", "b", ".", "c", "o">>
m1sp == <<" ", "a", "@", "b", ".", "c", "o">>
m2 == <<"c", "@", "d", ".", "c", "o">>
mBad == <<"a", "@", "b">>
dSent == <<"S", "e", "n", "t">>
dSENT == <<"S", "E", "N", "T">>
dTurkce == <<"T", "u", "r", "k", "c", "e", " ", "m", "a", "i", "l", " ">> \o gonderildi
txt == <<"n">>

\* representative rows: a base row with each field varied in turn
RowSet ==
    {Row(n, m1, <<>>, <<>>) : n \in {nA, nB, nBlank, <<>>, nNan}}
    \cup {Row(nA, m, <<>>, txt) :
            m \in {m1sp, m2, <<>>, <<" ">>, TalepForm, Talep_Form, mBad, nan_str}}
    \cup {Row(nA, m1, d, <<>>) : d \in {dSent, dTurkce}}
    \cup {Row(nB, m2, d, <<>>) : d \in {<<>>, dSENT}}
    \cup {[Row(nB, m1, <<>>, <<>>) EXCEPT !.short = TRUE]}

RECURSIVE SeqsUpTo(_, _)
SeqsUpTo(S, n) ==
    IF n = 0 THEN {<<>>}
    ELSE LET shorter == SeqsUpTo(S, n - 1)
         IN  shorter \cup {Append(q, x) : q \in shorter, x \in S}

(***************************************************************************)
(* DataProcessor (pandas reader of the LLM variant).                       *)
(* A DataFrame is a sequence of records; src is the index read_csv gives   *)
(* the row (its position in the file).                                     *)
(***************************************************************************)
\* values pandas.read_csv reads as missing
NaValues == {<<>>, nan_str, <<"N", "A">>}

read_cell(c) == IF c \in NaValues THEN NaN ELSE c

\* pd.read_csv(csv_path): a short line is padded with missing values
read_csv(rows) ==
    [k \in 1..Len(rows) |->
        [src |-> k,
         sirket_adi |-> read_cell(rows[k].sirket_adi),
         mail |-> read_cell(rows[k].mail),
         durum |-> read_cell(rows[k].durum),
         notlar |-> IF rows[k].short THEN NaN ELSE read_cell(rows[k].notlar)]]

\* the rows of df at the positions idx, in their order (a boolean mask applied)
RECURSIVE pick_from(_, _, _)
pick_from(df, idx, k) ==
    IF k > Len(df) THEN <<>>
    ELSE IF k \in idx THEN <<df[k]>> \o pick_from(df, idx, k + 1)
         ELSE pick_from(df, idx, k + 1)

mask(df, idx) == pick_from(df, idx, 1)

\* df.dropna(how='all')
dropna_all(df) ==
    mask(df, {k \in 1..Len(df) :
                ~(df[k].sirket_adi = NaN /\ df[k].mail = NaN
                  /\ df[k].durum = NaN /\ df[k].notlar = NaN)})

\* df.dropna(subset=['Sirket Adi', 'Mail'])
dropna_subset(df) ==
    mask(df, {k \in 1..Len(df) : df[k].sirket_adi # NaN /\ df[k].mail # NaN})

\* col.astype(str).str.strip() and then .replace('nan', pd.NA)
clean_text(v) ==
    LET s == strip(IF v = NaN THEN nan_str ELSE v)
    IN  IF s = nan_str THEN NaN ELSE s

\* the loop over ['Sirket Adi', 'Mail', 'Web Sitesi', 'Notlar']: Durum is not in it
clean_columns(df) ==
    [k \in 1..Len(df) |->
        [df[k] EXCEPT !.sirket_adi = clean_text(df[k].sirket_adi),
                      !.mail = clean_text(df[k].mail),
                      !.notlar = clean_text(df[k].notlar)]]

AsciiLower == {"a", "b", "c", "d", "e", "g", "i", "k", "l", "m", "n", "o", "p",
               "r", "s", "t", "u", "y"}
AsciiUpper == {"A", "B", "D", "E", "F", "G", "I", "L", "M", "N", "R", "S", "T"}
AsciiLetters == AsciiLower \cup AsciiUpper
LocalChars == AsciiLetters \cup {".", "_", "%", "+", "-"}
DomainChars == AsciiLetters \cup {".", "-"}

\* re.match(r'^[a-zA-Z0-9._%+-]+@[a-zA-Z0-9.-]+\.[a-zA-Z]{2,}$', email)
email_pattern(s) ==
    \E p \in 1..Len(s), q \in 1..Len(s) :
        /\ s[p] = "@" /\ s[q] = "." /\ 1 < p /\ p + 1 < q
        /\ AllIn(SubSeq(s, 1, p - 1), LocalChars)
        /\ AllIn(SubSeq(s, p + 1, q - 1), DomainChars)
        /\ Len(s) - q >= 2
        /\ AllIn(SubSeq(s, q + 1, Len(s)), AsciiLetters)

\* a mutant: every non-missing address passes
is_valid_email_any(email) == email # NaN

is_valid_email(email) ==
    IF email = NaN \/ email = <<>> THEN FALSE ELSE email_pattern(email)

\* DataProcessor._validate_emails
validate_emails(df) ==
    mask(df, {k \in 1..Len(df) : is_valid_email(df[k].mail)})

\* a mutant: keep='last'
drop_duplicates_last(df) ==
    mask(df, {k \in 1..Len(df) :
                \A j \in (k + 1)..Len(df) : df[j].mail # df[k].mail})

\* df.drop_duplicates(subset=['Mail']): the first row of each address is kept
drop_duplicates(df) ==
    mask(df, {k \in 1..Len(df) :
                \A j \in 1..(k - 1) : df[j].mail # df[k].mail})

\* DataProcessor._clean_data
clean_data(df) ==
    drop_duplicates(validate_emails(clean_columns(dropna_subset(dropna_all(df)))))

\* DataProcessor.get_company_info: a missing value becomes '', text is stripped
get_company_info(df, index) ==
    LET cell(v) == IF v = NaN THEN <<>> ELSE strip(v)
    IN  [src |-> df[index].src,
         sirket_adi |-> cell(df[index].sirket_adi),
         email |-> cell(df[index].mail),
         notlar |-> cell(df[index].notlar)]

(***************************************************************************)
(* StajBasvuruOtomasyonu.csv_dosyasini_oku (reader of the static variant). *)
(* csv.DictReader gives None for the cells a short line lacks; .strip() on *)
(* None raises, the handler logs and calls sys.exit(1).                    *)
(***************************************************************************)
Placeholders == {TalepForm, Talep_Form}

\* sirket.durum and 'gonderildi' (o: stands for o with diaeresis) in sirket.durum.lower()
already_sent(durum) == durum # <<>> /\ contains(lower(durum), gonderildi)

\* not sirket.mail or sirket.mail in ['TalepForm', 'Talep Form']
no_mail(mail) == mail = <<>> \/ mail \in Placeholders

RECURSIVE csv_oku_loop(_, _, _)
csv_oku_loop(rows, k, acc) ==
    IF k > Len(rows) THEN [status |-> "ok", sirketler |-> acc]
    ELSE IF strip(rows[k].sirket_adi) = <<>>
         THEN csv_oku_loop(rows, k + 1, acc)
    ELSE IF rows[k].short
         THEN [status |-> "exit1", sirketler |-> <<>>]
    ELSE LET sirket == [src |-> k,
                        sirket_adi |-> strip(rows[k].sirket_adi),
                        mail |-> strip(rows[k].mail),
                        durum |-> strip(rows[k].durum),
                        notlar |-> strip(rows[k].notlar)]
         IN  IF no_mail(sirket.mail) \/ already_sent(sirket.durum)
             THEN csv_oku_loop(rows, k + 1, acc)
             ELSE csv_oku_loop(rows, k + 1, Append(acc, sirket))

csv_dosyasini_oku(rows) == csv_oku_loop(rows, 1, <<>>)

(***************************************************************************)
(* State.                                                                  *)
(***************************************************************************)
VARIABLES
    store,            \* the backing CSV: [extra_header, rows]
    load,             \* DataProcessor.load_and_clean_data: "none", "ok"
    companies_df,     \* its result
    oku,              \* csv_dosyasini_oku: "none", "ok", "exit1"
    sirketler,        \* its result
    companies_data,   \* send_batch_emails: argument
    email_bodies,     \* send_batch_emails: argument
    delay_seconds,    \* send_batch_emails: argument
    results,          \* send_batch_emails: the accumulator
    bpc,              \* send_batch_emails: "idle", "loop", "returned", "raised",
                      \* "interrupted"
    processed,        \* history: positions the loop has handled
    send_calls,       \* history: calls of send_application_email
    sleeps,           \* history: completed calls of time.sleep
    config,           \* InternshipAutomation.config
    rpc,              \* InternshipAutomation: position in main() and run()
    generated_emails, \* InternshipAutomation.generated_emails
    review,           \* review gate: "pending", "confirmed", "declined"
    response,         \* last answer typed at the review gate
    prompts,          \* history: answers read at the review gate (capped)
    exit_code,        \* process exit code: "running", 0, 1, 130
    spc,              \* StajBasvuruOtomasyonu: position in calistir()
    sayac,            \* toplu_gonderim_yap: the three counters
    gonderim_log,     \* history: what happened to each company of the loop
    static_exit,      \* exit code of the static script: "running", 0, 1
    contacts,         \* history: services run() has contacted
    reported,         \* validate_config: the missing settings it printed
    gen_log,          \* history: how each call of generate_email_body ended
    interrupted,      \* a KeyboardInterrupt reached main() or run()
    cv_path,          \* the resume file: "present", "missing", "nopath"
    email_body,       \* message composition: the body handed in
    applicant_name,   \* message composition: the applicant's name
    mail_calls,       \* history: calls of the two send functions
    answer,           \* the generation endpoint's answers to one request
    generation,       \* generate_email_body: how it ended
    company_info,     \* generate_email_body: the company it writes for
    prompt,           \* history: the prompt _create_prompt built
    inst              \* two running instances of the static script, each
                      \* inside csv_durumunu_guncelle

readerVars == <<store, load, companies_df, oku, sirketler>>
batchVars == <<companies_data, email_bodies, delay_seconds, results, bpc,
               processed, send_calls, sleeps>>
runAux == <<contacts, reported, gen_log, interrupted>>
runVars == <<config, rpc, generated_emails, review, response, prompts,
             exit_code, contacts, reported, gen_log, interrupted>>
staticVars == <<spc, sayac, gonderim_log, static_exit>>
messageVars == <<cv_path, email_body, applicant_name, mail_calls>>
llmVars == <<answer, generation, company_info, prompt>>
twoVars == <<inst>>
vars == <<store, load, companies_df, oku, sirketler, companies_data,
          email_bodies, delay_seconds, results, bpc, processed, send_calls,
          sleeps, config, rpc, generated_emails, review, response, prompts,
          exit_code, spc, sayac, gonderim_log, static_exit, contacts,
          reported, gen_log, interrupted, cv_path, email_body,
          applicant_name, mail_calls, answer, generation, company_info,
          prompt, inst>>

empty_results ==
    [successful |-> <<>>, failed |-> <<>>, total_sent |-> 0, total_failed |-> 0]

readerIdle ==
    /\ store = [extra_header |-> FALSE, rows |-> <<>>]
    /\ load = "none" /\ companies_df = <<>>
    /\ oku = "none" /\ sirketler = <<>>

batchIdle ==
    /\ companies_data = <<>> /\ email_bodies = <<>> /\ delay_seconds = 0
    /\ results = empty_results /\ bpc = "idle"
    /\ processed = <<>> /\ send_calls = <<>> /\ sleeps = <<>>

no_config ==
    [unset |-> {}, empty |-> {}, csv_exists |-> TRUE,
     delay_between_emails |-> 0]

runIdle ==
    /\ config = no_config /\ rpc = "off" /\ generated_emails = <<>>
    /\ review = "pending" /\ response = <<>> /\ prompts = 0
    /\ exit_code = "running"
    /\ contacts = {} /\ reported = <<>> /\ gen_log = <<>>
    /\ interrupted = FALSE

zero_sayac == [basarili |-> 0, basarisiz |-> 0, atlanan |-> 0]

staticIdle ==
    /\ spc = "off" /\ sayac = zero_sayac /\ gonderim_log = <<>>
    /\ static_exit = "running"

no_answer == [tags |-> "none", post |-> "none"]

messageIdle ==
    /\ cv_path = "present" /\ email_body = <<>> /\ applicant_name = <<>>
    /\ mail_calls = <<>>

no_generation == [kind |-> "none", message |-> "", text |-> <<>>]

no_company == [sirket_adi |-> <<>>, web_sitesi |-> <<>>, notlar |-> <<>>]

llmIdle ==
    /\ answer = no_answer /\ generation = no_generation
    /\ company_info = no_company /\ prompt = <<>>

\* the two instances of the script
Instances == {1, 2}

\* an instance that does not run
no_instance ==
    [pc |-> "off", sirket_adi |-> <<>>, mail |-> <<>>, durum |-> <<>>,
     extra_header |-> FALSE, veriler |-> <<>>, overlapped |-> FALSE]

twoIdle == inst = [i \in Instances |-> no_instance]

(***************************************************************************)
(* The record readers applied to a drawn store.                            *)
(***************************************************************************)
load_and_clean_data(rows) == clean_data(read_csv(rows))

InitRead ==
    /\ store \in {[extra_header |-> FALSE, rows |-> r] :
                    r \in SeqsUpTo(RowSet, MaxRows)}
    /\ load = "none" /\ companies_df = <<>>
    /\ oku = "none" /\ sirketler = <<>>
    /\ batchIdle
    /\ runIdle
    /\ staticIdle
    /\ messageIdle
    /\ llmIdle
    /\ twoIdle

LoadAndCleanData ==
    /\ load = "none"
    /\ load' = "ok"
    /\ companies_df' = load_and_clean_data(store.rows)
    /\ UNCHANGED <<store, oku, sirketler>>
    /\ UNCHANGED batchVars
    /\ UNCHANGED runVars
    /\ UNCHANGED staticVars
    /\ UNCHANGED messageVars
    /\ UNCHANGED llmVars
    /\ UNCHANGED twoVars

CsvDosyasiniOku ==
    /\ oku = "none"
    /\ LET r == csv_dosyasini_oku(store.rows)
       IN  oku' = r.status /\ sirketler' = r.sirketler
    /\ UNCHANGED <<store, load, companies_df>>
    /\ UNCHANGED batchVars
    /\ UNCHANGED runVars
    /\ UNCHANGED staticVars
    /\ UNCHANGED messageVars
    /\ UNCHANGED llmVars
    /\ UNCHANGED twoVars

NextRead == LoadAndCleanData \/ CsvDosyasiniOku

SpecRead == InitRead /\ [][NextRead]_vars

(***************************************************************************)
(* EmailSender.send_batch_emails.                                          *)
(* A company_info dict may lack a key (NoKey); send_application_email      *)
(* catches every error of one send and answers True or False.              *)
(***************************************************************************)
NoKey == <<"<no key>">>

CompanySet ==
    {[sirket_adi |-> nA, email |-> m1],
     [sirket_adi |-> nA, email |-> m2],
     [sirket_adi |-> nB, email |-> m2],
     [sirket_adi |-> NoKey, email |-> m1]}

BodySet == {<<"b">>}

DelaySet == (-1)..MaxDelay

Min(a, b) == IF a < b THEN a ELSE b

\* time.sleep(secs) raises instead of pausing
sleep_raises(secs) == secs < 0 \/ secs > SleepMax

\* lines 223-230: the outcome of the send is appended to one of the two lists
record_outcome(res, company_name, success) ==
    IF success
    THEN [res EXCEPT !.successful = Append(@, company_name),
                     !.total_sent = @ + 1]
    ELSE [res EXCEPT !.failed = Append(@, company_name),
                     !.total_failed = @ + 1]

\* lines 238-240: the handler of an error raised inside the loop body
record_error(res, company_name) ==
    [res EXCEPT !.failed = Append(@, company_name), !.total_failed = @ + 1]

\* company_info.get('sirket_adi', 'Bilinmeyen')
name_or_default(c) == IF c.sirket_adi = NoKey THEN Bilinmeyen ELSE c.sirket_adi

\* the except branch (lines 237-245) for position i, entered with accumulator res
HandleError(i, res) ==
    LET r2 == record_error(res, name_or_default(companies_data[i]))
        half == delay_seconds \div 2
    IN  /\ results' = r2
        /\ IF i - 1 < Len(companies_data) - 1
           THEN IF sleep_raises(half)
                THEN bpc' = "raised" /\ sleeps' = sleeps
                ELSE bpc' = bpc
                     /\ sleeps' = Append(sleeps, [after |-> i, secs |-> half,
                                                  on |-> "error"])
           ELSE bpc' = bpc /\ sleeps' = sleeps

\* one pass of the for loop (lines 211-245) for the next pair of the zip
BatchIteration ==
    /\ bpc = "loop"
    /\ Len(processed) < Min(Len(companies_data), Len(email_bodies))
    /\ LET i == Len(processed) + 1
           c == companies_data[i]
       IN  /\ processed' = Append(processed, i)
           /\ IF c.sirket_adi = NoKey \/ c.email = NoKey
              THEN \* KeyError at line 213 or 214
                   /\ send_calls' = send_calls
                   /\ HandleError(i, results)
              ELSE \E success \in BOOLEAN :
                   LET r1 == record_outcome(results, c.sirket_adi, success)
                   IN  /\ send_calls' = Append(send_calls,
                                               [pos |-> i, to |-> c.email,
                                                body |-> email_bodies[i],
                                                ok |-> success])
                       /\ IF i - 1 < Len(companies_data) - 1
                          THEN IF sleep_raises(delay_seconds)
                               THEN HandleError(i, r1)
                               ELSE /\ results' = r1
                                    /\ bpc' = bpc
                                    /\ sleeps' = Append(sleeps,
                                           [after |-> i, secs |-> delay_seconds,
                                            on |-> "sent"])
                          ELSE results' = r1 /\ bpc' = bpc /\ sleeps' = sleeps
    /\ UNCHANGED <<companies_data, email_bodies, delay_seconds>>
    /\ UNCHANGED readerVars
    /\ UNCHANGED runVars
    /\ UNCHANGED staticVars
    /\ UNCHANGED messageVars
    /\ UNCHANGED llmVars
    /\ UNCHANGED twoVars

\* lines 247-255: the summary divides by total_emails, then the dict is returned
BatchSummary ==
    /\ bpc = "loop"
    /\ Len(processed) = Min(Len(companies_data), Len(email_bodies))
    /\ bpc' = IF Len(companies_data) = 0 THEN "raised" ELSE "returned"
    /\ UNCHANGED <<companies_data, email_bodies, delay_seconds, results,
                   processed, send_calls, sleeps>>
    /\ UNCHANGED readerVars
    /\ UNCHANGED runVars
    /\ UNCHANGED staticVars
    /\ UNCHANGED messageVars
    /\ UNCHANGED llmVars
    /\ UNCHANGED twoVars

InitBatch ==
    /\ readerIdle
    /\ runIdle
    /\ staticIdle
    /\ companies_data \in SeqsUpTo(CompanySet, MaxBatch)
    /\ email_bodies \in SeqsUpTo(BodySet, MaxBatch)
    /\ delay_seconds \in DelaySet
    /\ results = empty_results /\ bpc = "loop"
    /\ processed = <<>> /\ send_calls = <<>> /\ sleeps = <<>>
    /\ messageIdle
    /\ llmIdle
    /\ twoIdle

NextBatch == BatchIteration \/ BatchSummary

SpecBatch == InitBatch /\ [][NextBatch]_vars

(***************************************************************************)
(* LLMManager: check_connection, _call_ollama_api, _clean_response and     *)
(* generate_email_body.  An answer of the endpoint is what requests gets   *)
(* back: no connection, a timeout, or a reply with a status and a payload. *)
(***************************************************************************)
\* the only status _call_ollama_api and check_connection accept
HTTP_OK == 200

Statuses == {HTTP_OK, 201, 404, 500}

\* str.split('\n')
RECURSIVE split_lines(_, _)
split_lines(s, line) ==
    IF s = <<>> THEN <<line>>
    ELSE IF Head(s) = "\n" THEN <<line>> \o split_lines(Tail(s), <<>>)
         ELSE split_lines(Tail(s), Append(line, Head(s)))

\* '\n'.join(lines)
RECURSIVE join_lines(_)
join_lines(lines) ==
    IF lines = <<>> THEN <<>>
    ELSE IF Len(lines) = 1 THEN lines[1]
         ELSE lines[1] \o <<"\n">> \o join_lines(Tail(lines))

\* the header words of _clean_response (lines 219-228)
lines_to_remove ==
    {<<"k", "o", "n", "u", ":">>,
     <<"s", "u", "b", "j", "e", "c", "t", ":">>,
     <<"k", "i", "m", "d", "e", "n", ":">>,
     <<"f", "r", "o", "m", ":">>,
     <<"k", "i", "m", "e", ":">>,
     <<"t", "o", ":">>,
     <<"e", "-", "p", "o", "s", "t", "a", " ", "g", "o:", "v", "d", "e", "s",
       "i", ":">>,
     <<"e", "m", "a", "i", "l", " ", "b", "o", "d", "y", ":">>}

\* lines 233-238: a line stays when it names no header word and is not blank
RECURSIVE filter_lines(_)
filter_lines(lines) ==
    IF lines = <<>> THEN <<>>
    ELSE LET line == Head(lines)
             line_lower == strip(lower(line))
             should_skip == \E t \in lines_to_remove : contains(line_lower, t)
         IN  IF ~should_skip /\ strip(line) # <<>>
             THEN <<line>> \o filter_lines(Tail(lines))
             ELSE filter_lines(Tail(lines))

\* the length of the longest prefix of s made of whitespace
RECURSIVE space_run(_)
space_run(s) ==
    IF s # <<>> /\ Head(s) \in Whitespace THEN 1 + space_run(Tail(s)) ELSE 0

\* re.sub(r'\n\s*\n', '\n\n', s): a newline, the longest run of whitespace
\* that ends in a newline, is replaced by two newlines
RECURSIVE collapse_blank_lines(_)
collapse_blank_lines(s) ==
    IF s = <<>> THEN <<>>
    ELSE IF Head(s) # "\n"
         THEN <<Head(s)>> \o collapse_blank_lines(Tail(s))
         ELSE LET rest == Tail(s)
                  ends == {j \in 1..space_run(rest) : rest[j] = "\n"}
              IN  IF ends = {}
                  THEN <<"\n">> \o collapse_blank_lines(rest)
                  ELSE LET last == CHOOSE j \in ends : \A i \in ends : i <= j
                       IN  <<"\n", "\n">>
                               \o collapse_blank_lines(
                                      SubSeq(rest, last + 1, Len(rest)))

\* _clean_response (lines 216-247)
clean_response(raw) ==
    strip(collapse_blank_lines(
              join_lines(filter_lines(split_lines(strip(raw), <<>>)))))

\* the payload of a reply: not JSON, JSON without the 'response' field, JSON
\* whose 'response' is null, or JSON whose 'response' is a text
NotJson == [json |-> FALSE, has_response |-> FALSE, response |-> <<>>]
NoField == [json |-> TRUE, has_response |-> FALSE, response |-> <<>>]
\* JSON null (Python None)
None == <<"<None>">>
NullResponse == [json |-> TRUE, has_response |-> TRUE, response |-> None]
TextResponse(t) == [json |-> TRUE, has_response |-> TRUE, response |-> t]

Reply(status, payload) ==
    [kind |-> "reply", status |-> status, payload |-> payload]
Unreachable == [kind |-> "unreachable", status |-> 0, payload |-> NotJson]
Timeout == [kind |-> "timeout", status |-> 0, payload |-> NotJson]

ResponseTexts ==
    {<<"H", "i">>,
     <<"T", "o", ":", " ", "x", "\n", " ", "\n", "H", "i", "\n">>,
     <<"H", "i", "\n", "\n", "\n", "x", "\n", "T", "o", ":", "\n", "y">>,
     <<" ", "\n">>}

Payloads == {NotJson, NoField, NullResponse} \cup {TextResponse(t) : t \in ResponseTexts}

\* what GET /api/tags and POST /api/generate get back
TagsAnswers == {Unreachable, Timeout, Reply(HTTP_OK, NoField), Reply(500, NotJson)}
PostAnswers == {Unreachable, Timeout} \cup {Reply(st, p) : st \in Statuses, p \in Payloads}

\* check_connection (lines 36-41): True only for status 200; every error is
\* logged and answered with False
check_connection(tags) == tags.kind = "reply" /\ tags.status = HTTP_OK

Raised(kind, message) == [kind |-> kind, message |-> message, text |-> <<>>]
Returned(text) == [kind |-> "text", message |-> "", text |-> text]

\* _call_ollama_api (lines 176-203): the ValueError raised at line 187 or 192
\* is caught by the last handler and raised again as ValueError
call_ollama_api(post) ==
    IF post.kind = "unreachable"
    THEN Raised("ConnectionError", "Ollama sunucusuna baglanilamiyor")
    ELSE IF post.kind = "timeout"
    THEN Raised("ConnectionError", "Ollama API zaman asimina ugradi")
    ELSE IF post.status # HTTP_OK
    THEN Raised("ValueError", "API cagrisi hatasi: API hatasi: HTTP")
    ELSE IF ~post.payload.json
    THEN Raised("ValueError", "Gecersiz JSON yaniti alindi")
    ELSE IF ~post.payload.has_response
    THEN Raised("ValueError", "API cagrisi hatasi: Beklenmeyen API yaniti")
    ELSE [kind |-> "value", message |-> "", text |-> post.payload.response]

\* the words _create_prompt looks for in the upper-cased notes (lines 93, 95)
DRONE == <<"D", "R", "O", "N", "E">>
ATATURKCU == <<"A", "T", "A", "T", "U:", "R", "K", "C,", "U:">>

\* the two sentences of lines 94 and 96, each one token of the prompt
drone_clause == <<"<drone teknolojileri>">>
ataturk_clause == <<"<Ataturk'un ilke ve degerleri>">>

\* _create_prompt, lines 90-96 (as in test_special_notes.py, lines 30-37):
\* empty notes are not looked at, DRONE is looked for first
special_interest_ataturk_first(ci) ==
    IF ci.notlar = <<>> THEN <<>>
    ELSE LET notes == upper(ci.notlar)
         IN  IF contains(notes, ATATURKCU) THEN ataturk_clause
             ELSE IF contains(notes, DRONE) THEN drone_clause
             ELSE <<>>
special_interest(ci) ==
    IF ci.notlar = <<>> THEN <<>>
    ELSE LET notes == upper(ci.notlar)
         IN  IF contains(notes, DRONE) THEN drone_clause
             ELSE IF contains(notes, ATATURKCU) THEN ataturk_clause
             ELSE <<>>

\* _create_prompt, lines 99-101
website_ref(ci) ==
    IF ci.web_sitesi # <<>>
    THEN <<"<Web sitenizde (">> \o ci.web_sitesi \o <<")>">>
    ELSE <<>>

\* _create_prompt, lines 103-144: the fixed text is one token per stretch,
\* the interpolated values are spelled out; the result is stripped
create_prompt(ci) ==
    strip(<<"\n", "<Sirket Adi:>">> \o ci.sirket_adi
          \o <<"\n", "<Web Sitesi:>">> \o ci.web_sitesi
          \o <<"\n", "<Ozel Notlar:>">> \o ci.notlar
          \o <<"\n", "<Basvuru Sahibi>", "<Ilgi Nedeni:>">> \o ci.sirket_adi
          \o <<"\n", " ">> \o website_ref(ci)
          \o <<"\n", " ">> \o special_interest(ci)
          \o <<"\n", "<Kurallar>">> \o ci.sirket_adi
          \o <<"\n", "<Lutfen>", "\n">>)

\* the companies a prompt is built for: notes without a keyword, with one
\* in small letters, with both (the second keyword of the code first)
PromptNotes ==
    {<<>>,
     <<"A", "I", " ", "d", "r", "o">>,
     <<"d", "r", "o", "n", "e">>,
     <<"a", "t", "a", "t", "u:", "r", "k", "c,", "u:">>,
     <<"A", "t", "a", "t", "u", "r", "k", "c", "u">>,
     ATATURKCU \o <<" ", "D", "r", "o", "n", "e">>}
PromptCompanies ==
    [sirket_adi : {<<"A">>}, web_sitesi : {<<>>, <<"w">>}, notlar : PromptNotes]

\* generate_email_body (lines 58-77): the connection check, the call, the
\* cleaning; every error is logged and raised again.  A null 'response'
\* fails in _clean_response (None has no strip)
generate_email_body(a) ==
    IF ~check_connection(a.tags)
    THEN Raised("ConnectionError", "Ollama sunucusuna baglanilamiyor")
    ELSE LET r == call_ollama_api(a.post)
         IN  IF r.kind # "value" THEN r
             ELSE IF r.text = None
                  THEN Raised("AttributeError", "NoneType has no strip")
                  ELSE Returned(clean_response(r.text))

InitLlm ==
    /\ readerIdle
    /\ batchIdle
    /\ runIdle
    /\ staticIdle
    /\ messageIdle
    /\ answer \in [tags : TagsAnswers, post : PostAnswers]
    /\ generation = no_generation
    /\ company_info \in PromptCompanies
    /\ prompt = <<>>
    /\ twoIdle

GenerateEmailBody ==
    /\ generation = no_generation
    /\ generation' = generate_email_body(answer)
    /\ prompt' = IF check_connection(answer.tags)
                 THEN create_prompt(company_info)
                 ELSE <<>>
    /\ UNCHANGED <<answer, company_info>>
    /\ UNCHANGED readerVars
    /\ UNCHANGED batchVars
    /\ UNCHANGED runVars
    /\ UNCHANGED staticVars
    /\ UNCHANGED messageVars
    /\ UNCHANGED twoVars

NextLlm == GenerateEmailBody

SpecLlm == InitLlm /\ [][NextLlm]_vars

(***************************************************************************)
(* InternshipAutomation: main(), __init__ and run().                       *)
(***************************************************************************)
required_fields ==
    {"email_address", "email_password", "applicant_name",
     "applicant_university", "applicant_department"}

\* the list validate_config walks (lines 108-111)
required_list ==
    <<"email_address", "email_password", "applicant_name",
      "applicant_university", "applicant_department">>

\* stores the orchestrator is run on
RunRowSet ==
    {Row(nA, m1, <<>>, <<>>), Row(nB, m2, <<>>, <<>>), Row(nB, m1sp, <<>>, txt),
     Row(nA, TalepForm, <<>>, <<>>)}

\* the settings as load_config reads them: unset (os.getenv gives None), set
\* to the empty string, or set to a value
RunConfigs ==
    [unset : {{}, {"email_password"}, {"applicant_name", "email_address"}},
     empty : {{}, {"applicant_university"}},
     csv_exists : BOOLEAN,
     delay_between_emails : {-1, 0, MaxDelay}]

\* a mutant: only unset settings count as missing
missing_fields_unset_only(cfg) ==
    mask(required_list,
         {k \in 1..Len(required_list) : required_list[k] \in cfg.unset})

\* lines 113-116: the settings for which  not self.config.get(field)  holds
missing_fields(cfg) ==
    mask(required_list,
         {k \in 1..Len(required_list) :
             required_list[k] \in cfg.unset \cup cfg.empty})

\* the answers typed at the review gate
Responses ==
    {<<"e">>, <<"E">>, <<"y", "e", "s">>, <<"h">>, <<"N">>, <<"x">>, <<>>}

yes_answers == {<<"e">>, <<"e", "v", "e", "t">>, <<"y", "e", "s">>, <<"y">>}
no_answers == {<<"h">>, <<"h", "a", "y", "i", "r">>, <<"n", "o">>, <<"n">>}

\* a mutant: an answer that is not a refusal counts as consent
review_answer_default_yes(resp) ==
    IF lower(resp) \in no_answers THEN "declined" ELSE "confirmed"

\* review_emails, one pass of its while loop on the answer resp
review_answer(resp) ==
    IF lower(resp) \in yes_answers THEN "confirmed"
    ELSE IF lower(resp) \in no_answers THEN "declined"
    ELSE "pending"

\* the body generated for the company at position k of companies_df
body_for(k) == <<"body", ToString(k)>>

\* what the endpoint may answer while the body of company k is generated:
\* the text, a blank text, no connection, a server error
RunAnswers(k) ==
    {[tags |-> Reply(HTTP_OK, NoField), post |-> p] :
        p \in {Reply(HTTP_OK, TextResponse(body_for(k))),
               Reply(HTTP_OK, TextResponse(<<" ">>)),
               Unreachable,
               Reply(500, NotJson)}}

\* a mutant: a failed generation leaves no entry
record_generation_skip(emails, g, saved) ==
    IF g.kind = "text" /\ saved THEN Append(emails, g.text) ELSE emails

\* lines 199-217: the body is appended after it has been generated and
\* saved; every Exception of the pass appends the empty body instead
record_generation(emails, g, saved) ==
    IF g.kind = "text" /\ saved THEN Append(emails, g.text)
    ELSE Append(emails, <<>>)

InitRun ==
    /\ store \in {[extra_header |-> FALSE, rows |-> r] :
                    r \in SeqsUpTo(RunRowSet, MaxRows)}
    /\ load = "none" /\ companies_df = <<>>
    /\ oku = "none" /\ sirketler = <<>>
    /\ batchIdle
    /\ config \in RunConfigs
    /\ rpc = "init" /\ generated_emails = <<>>
    /\ review = "pending" /\ response = <<>> /\ prompts = 0
    /\ exit_code = "running"
    /\ contacts = {} /\ reported = <<>> /\ gen_log = <<>>
    /\ interrupted = FALSE
    /\ staticIdle
    /\ messageIdle
    /\ llmIdle
    /\ twoIdle

Exit(code) == rpc' = "exited" /\ exit_code' = code

\* __init__: validate_config prints the missing settings and ends the process
\* with 1; it does the same when the CSV file is missing
ValidateConfig ==
    /\ rpc = "init"
    /\ IF missing_fields(config) # <<>>
       THEN Exit(1) /\ reported' = missing_fields(config)
       ELSE /\ reported' = reported
            /\ IF ~config.csv_exists
               THEN Exit(1)
               ELSE rpc' = "checks" /\ exit_code' = exit_code
    /\ UNCHANGED <<config, generated_emails, review, response, prompts>>
    /\ UNCHANGED <<contacts, gen_log, interrupted>>
    /\ UNCHANGED readerVars
    /\ UNCHANGED batchVars
    /\ UNCHANGED staticVars
    /\ UNCHANGED messageVars
    /\ UNCHANGED llmVars
    /\ UNCHANGED twoVars

\* run step 1: run_system_checks asks the endpoint, then logs in at the
\* relay; on a failed check run() returns and main() ends
RunSystemChecks ==
    /\ rpc = "checks"
    /\ \E llm_ok \in BOOLEAN, smtp_ok \in BOOLEAN :
           /\ contacts' = contacts \cup (IF llm_ok THEN {"endpoint", "relay"}
                                         ELSE {"endpoint"})
           /\ IF llm_ok /\ smtp_ok
              THEN rpc' = "load" /\ exit_code' = exit_code
              ELSE Exit(0)
    /\ UNCHANGED <<config, generated_emails, review, response, prompts>>
    /\ UNCHANGED <<reported, gen_log, interrupted>>
    /\ UNCHANGED readerVars
    /\ UNCHANGED batchVars
    /\ UNCHANGED staticVars
    /\ UNCHANGED messageVars
    /\ UNCHANGED llmVars
    /\ UNCHANGED twoVars

\* run step 2: load_and_process_data
LoadAndProcessData ==
    /\ rpc = "load"
    /\ load' = "ok"
    /\ companies_df' = load_and_clean_data(store.rows)
    /\ rpc' = "generate"
    /\ UNCHANGED <<store, oku, sirketler>>
    /\ UNCHANGED <<config, generated_emails, review, response, prompts,
                   exit_code>>
    /\ UNCHANGED runAux
    /\ UNCHANGED batchVars
    /\ UNCHANGED staticVars
    /\ UNCHANGED messageVars
    /\ UNCHANGED llmVars
    /\ UNCHANGED twoVars

\* run step 3: one pass of the loop of generate_emails (lines 192-217):
\* generate_email_body, save_generated_email, append
GenerateEmail ==
    /\ rpc = "generate"
    /\ Len(generated_emails) < Len(companies_df)
    /\ \E a \in RunAnswers(Len(generated_emails) + 1), saved \in BOOLEAN :
           LET g == generate_email_body(a)
           IN  /\ generated_emails' = record_generation(generated_emails, g, saved)
               /\ gen_log' = Append(gen_log,
                                    IF g.kind = "text" /\ ~saved THEN "OSError"
                                    ELSE g.kind)
    /\ contacts' = contacts \cup {"endpoint"}
    /\ UNCHANGED <<config, rpc, review, response, prompts, exit_code>>
    /\ UNCHANGED <<reported, interrupted>>
    /\ UNCHANGED readerVars
    /\ UNCHANGED batchVars
    /\ UNCHANGED staticVars
    /\ UNCHANGED messageVars
    /\ UNCHANGED llmVars
    /\ UNCHANGED twoVars

\* the loop of generate_emails is over
GenerateDone ==
    /\ rpc = "generate"
    /\ Len(generated_emails) = Len(companies_df)
    /\ rpc' = "review"
    /\ UNCHANGED <<config, generated_emails, review, response, prompts,
                   exit_code>>
    /\ UNCHANGED runAux
    /\ UNCHANGED readerVars
    /\ UNCHANGED batchVars
    /\ UNCHANGED staticVars
    /\ UNCHANGED messageVars
    /\ UNCHANGED llmVars
    /\ UNCHANGED twoVars

\* run step 4: review_emails reads one answer; run() returns on a refusal
ReviewEmails ==
    /\ rpc = "review"
    /\ \E resp \in Responses :
           /\ response' = resp
           /\ review' = review_answer(resp)
           /\ IF review_answer(resp) = "confirmed"
              THEN rpc' = "send" /\ exit_code' = exit_code
              ELSE IF review_answer(resp) = "declined"
                   THEN Exit(0)
                   ELSE rpc' = rpc /\ exit_code' = exit_code
    /\ prompts' = Min(prompts + 1, MaxPrompts)
    /\ UNCHANGED <<config, generated_emails>>
    /\ UNCHANGED runAux
    /\ UNCHANGED readerVars
    /\ UNCHANGED batchVars
    /\ UNCHANGED staticVars
    /\ UNCHANGED messageVars
    /\ UNCHANGED llmVars
    /\ UNCHANGED twoVars

\* positions of generated_emails whose body is not blank
\* a mutant: every position is taken
valid_positions_all == 1..Len(generated_emails)
\* send_emails, lines 250-252: the positions whose body is not blank
valid_positions == {k \in 1..Len(generated_emails) : strip(generated_emails[k]) # <<>>}

\* run step 5: send_emails pairs the non-blank bodies with their companies
\* and calls send_batch_emails; with no pair it returns None and the summary
\* of run() raises TypeError, which run() turns into sys.exit(1)
SendEmails ==
    /\ rpc = "send"
    /\ IF valid_positions = {}
       THEN /\ Exit(1)
            /\ UNCHANGED batchVars
       ELSE /\ companies_data' =
                   mask([k \in 1..Len(generated_emails) |->
                            get_company_info(companies_df, k)], valid_positions)
            /\ email_bodies' = mask(generated_emails, valid_positions)
            /\ delay_seconds' = config.delay_between_emails
            /\ bpc' = "loop"
            /\ rpc' = "sending"
            /\ UNCHANGED <<results, processed, send_calls, sleeps, exit_code>>
    /\ UNCHANGED <<config, generated_emails, review, response, prompts>>
    /\ UNCHANGED runAux
    /\ UNCHANGED readerVars
    /\ UNCHANGED staticVars
    /\ UNCHANGED messageVars
    /\ UNCHANGED llmVars
    /\ UNCHANGED twoVars

\* send_batch_emails has returned: save_results and the summary of run();
\* an error raised by send_batch_emails reaches run(), which exits with 1
FinishRun ==
    /\ rpc = "sending"
    /\ bpc \in {"returned", "raised"}
    /\ IF bpc = "returned" THEN Exit(0) ELSE Exit(1)
    /\ UNCHANGED <<config, generated_emails, review, response, prompts>>
    /\ UNCHANGED runAux
    /\ UNCHANGED readerVars
    /\ UNCHANGED batchVars
    /\ UNCHANGED staticVars
    /\ UNCHANGED messageVars
    /\ UNCHANGED llmVars
    /\ UNCHANGED twoVars

\* Ctrl-C: inside run() the handler at line 338 prints a notice and run()
\* returns, the process ends with 0; inside __init__ nothing catches it
\* (main() catches Exception only) and the interpreter ends with 130.  A
\* batch in progress stops where it is
KeyboardInterruptRun ==
    /\ rpc \in {"init", "checks", "load", "generate", "review", "send",
                "sending"}
    /\ interrupted' = TRUE
    /\ IF rpc = "init" THEN Exit(130) ELSE Exit(0)
    /\ bpc' = IF bpc = "loop" THEN "interrupted" ELSE bpc
    /\ UNCHANGED <<config, generated_emails, review, response, prompts>>
    /\ UNCHANGED <<contacts, reported, gen_log>>
    /\ UNCHANGED <<companies_data, email_bodies, delay_seconds, results,
                   processed, send_calls, sleeps>>
    /\ UNCHANGED readerVars
    /\ UNCHANGED staticVars
    /\ UNCHANGED messageVars
    /\ UNCHANGED llmVars
    /\ UNCHANGED twoVars

NextRun ==
    \/ ValidateConfig \/ RunSystemChecks \/ LoadAndProcessData
    \/ GenerateEmail \/ GenerateDone \/ ReviewEmails \/ SendEmails
    \/ BatchIteration \/ BatchSummary \/ FinishRun
    \/ KeyboardInterruptRun

SpecRun == InitRun /\ [][NextRun]_vars

(***************************************************************************)
(* StajBasvuruOtomasyonu (static variant): calistir, toplu_gonderim_yap    *)
(* and the status write-back csv_durumunu_guncelle.                        *)
(***************************************************************************)
\* str.capitalize()
capitalize(s) == IF s = <<>> THEN <<>> ELSE <<upper_char(Head(s))>> \o lower(Tail(s))

turkce == <<"t", "u", "r", "k", "c", "e">>
ingilizce == <<"i", "n", "g", "i", "l", "i", "z", "c", "e">>

\* f"{dil.capitalize()} mail gonderildi"
durum_text(dil) == capitalize(dil) \o <<" ", "m", "a", "i", "l", " ">> \o gonderildi

\* lines 225-231: every row whose stripped name equals sirket_adi gets durum
veriler_of(rows, sirket_adi, durum) ==
    [k \in 1..Len(rows) |->
        IF strip(rows[k].sirket_adi) = sirket_adi
        THEN [rows[k] EXCEPT !.durum = durum]
        ELSE rows[k]]

\* a row as csv.DictWriter writes it: a missing cell is written empty
written(row) ==
    IF row.short THEN [row EXCEPT !.short = FALSE, !.notlar = <<>>] ELSE row

\* lines 234-238: the file is truncated, the seven-column header is written,
\* then the rows in order; DictWriter raises ValueError at the first row that
\* has a field outside fieldnames (every row when the header had an extra
\* column, else a row with surplus cells) and the rows after it are lost
rewrite(extra_header, veriler) ==
    LET bad == {k \in 1..Len(veriler) : extra_header \/ veriler[k].overflow}
        stop == IF bad = {} THEN Len(veriler) + 1
                ELSE CHOOSE k \in bad : \A j \in bad : k <= j
    IN  [k \in 1..(stop - 1) |-> written(veriler[k])]

\* csv_durumunu_guncelle: read all rows, set the status, rewrite the file; an
\* error is logged and swallowed
csv_durumunu_guncelle(st, sirket_adi, durum) ==
    [extra_header |-> FALSE,
     rows |-> rewrite(st.extra_header, veriler_of(st.rows, sirket_adi, durum))]

\* csv_durumunu_guncelle ends in its except branch (line 240) when the
\* rewrite meets a row it cannot write
guncelle_raises(st) ==
    st.extra_header \/ \E k \in 1..Len(st.rows) : st.rows[k].overflow

\* a mutant: a skipped company is counted as failed
count_outcome_skip_failed(s, what) ==
    CASE what = "sent" -> [s EXCEPT !.basarili = @ + 1]
      [] what = "failed" -> [s EXCEPT !.basarisiz = @ + 1]
      [] what = "skipped" -> [s EXCEPT !.basarisiz = @ + 1]
\* lines 277, 288 and 296: the counter of the outcome goes up by one
count_outcome(s, what) ==
    CASE what = "sent" -> [s EXCEPT !.basarili = @ + 1]
      [] what = "failed" -> [s EXCEPT !.basarisiz = @ + 1]
      [] what = "skipped" -> [s EXCEPT !.atlanan = @ + 1]

StaticRowSet ==
    {Row(nA, m1, <<>>, <<>>), Row(nB, m2, <<>>, txt), Row(nA, m2, <<>>, <<>>),
     Row(nB, m1, dTurkce, <<>>), Row(nA, <<>>, <<>>, <<>>),
     [Row(nB, m2, <<>>, <<>>) EXCEPT !.overflow = TRUE]}

InitStatic ==
    /\ store \in [extra_header : BOOLEAN, rows : SeqsUpTo(StaticRowSet, MaxRows)]
    /\ load = "none" /\ companies_df = <<>>
    /\ oku = "none" /\ sirketler = <<>>
    /\ batchIdle
    /\ runIdle
    /\ spc = "start" /\ sayac = zero_sayac /\ gonderim_log = <<>>
    /\ static_exit = "running"
    /\ messageIdle
    /\ llmIdle
    /\ twoIdle

\* calistir up to the loop: the CV must exist, the store is read, an empty
\* list of companies ends the process with exit code 1
CalistirStart ==
    /\ spc = "start"
    /\ \E cv_exists \in BOOLEAN :
           LET r == csv_dosyasini_oku(store.rows)
           IN  IF ~cv_exists
               THEN /\ spc' = "exited" /\ static_exit' = 1
                    /\ UNCHANGED <<oku, sirketler>>
               ELSE /\ oku' = r.status
                    /\ sirketler' = r.sirketler
                    /\ IF r.status = "exit1" \/ r.sirketler = <<>>
                       THEN spc' = "exited" /\ static_exit' = 1
                       ELSE spc' = "loop" /\ static_exit' = static_exit
    /\ UNCHANGED <<store, load, companies_df, sayac, gonderim_log>>
    /\ UNCHANGED batchVars
    /\ UNCHANGED runVars
    /\ UNCHANGED messageVars
    /\ UNCHANGED llmVars
    /\ UNCHANGED twoVars

\* one pass of the loop of toplu_gonderim_yap (lines 270-296): the language
\* choice (None skips), the send, and after a successful send the status
\* write-back and the pause time.sleep(2); a failed send is followed by no
\* pause.  The log entry tells whether the write-back ended without error
\* (updated) and whether the pause took place (paused)
TopluGonderimIteration ==
    /\ spc = "loop"
    /\ Len(gonderim_log) < Len(sirketler)
    /\ LET i == Len(gonderim_log) + 1
           sirket == sirketler[i]
           entry(what, dil, updated, paused) ==
               [pos |-> i, sirket_adi |-> sirket.sirket_adi,
                mail |-> sirket.mail, outcome |-> what, dil |-> dil,
                updated |-> updated, paused |-> paused]
       IN  \E dil \in {turkce, ingilizce, <<>>} :
               IF dil = <<>>
               THEN /\ sayac' = count_outcome(sayac, "skipped")
                    /\ gonderim_log' =
                           Append(gonderim_log, entry("skipped", dil, FALSE, FALSE))
                    /\ store' = store
               ELSE \E sent \in BOOLEAN :
                    IF sent
                    THEN /\ sayac' = count_outcome(sayac, "sent")
                         /\ gonderim_log' =
                                Append(gonderim_log,
                                       entry("sent", dil, ~guncelle_raises(store),
                                             TRUE))
                         /\ store' = csv_durumunu_guncelle(store, sirket.sirket_adi,
                                                           durum_text(dil))
                    ELSE /\ sayac' = count_outcome(sayac, "failed")
                         /\ gonderim_log' =
                                Append(gonderim_log, entry("failed", dil, FALSE, FALSE))
                         /\ store' = store
    /\ UNCHANGED <<load, companies_df, oku, sirketler, spc, static_exit>>
    /\ UNCHANGED batchVars
    /\ UNCHANGED runVars
    /\ UNCHANGED messageVars
    /\ UNCHANGED llmVars
    /\ UNCHANGED twoVars

\* the report of toplu_gonderim_yap and the end of calistir
TopluGonderimDone ==
    /\ spc = "loop"
    /\ Len(gonderim_log) = Len(sirketler)
    /\ spc' = "done" /\ static_exit' = 0
    /\ UNCHANGED <<sayac, gonderim_log>>
    /\ UNCHANGED readerVars
    /\ UNCHANGED batchVars
    /\ UNCHANGED runVars
    /\ UNCHANGED messageVars
    /\ UNCHANGED llmVars
    /\ UNCHANGED twoVars

\* what the file holds when the rewrite of csv_durumunu_guncelle is cut short:
\* the file as it was (the interruption came while reading), or, once
\* open(..., 'w') has truncated it, the rows written so far (none up to all);
\* the with statement closes the file, which flushes what was written
interrupted_rewrites(st, sirket_adi, durum) ==
    LET full == csv_durumunu_guncelle(st, sirket_adi, durum).rows
    IN  {st} \cup {[extra_header |-> FALSE, rows |-> SubSeq(full, 1, k)] :
                      k \in 0..Len(full)}

\* Ctrl-C during calistir: KeyboardInterrupt is not an Exception, so no
\* handler of the class catches it; main() (lines 337-339) prints a notice
\* and calls sys.exit(0).  Inside the loop the interruption comes either
\* before the send has succeeded (nothing is recorded) or after it, inside
\* csv_durumunu_guncelle or the pause that follows
KeyboardInterruptStatic ==
    /\ spc \in {"start", "loop"}
    /\ spc' = "interrupted" /\ static_exit' = 0
    /\ \/ UNCHANGED <<store, sayac, gonderim_log>>
       \/ /\ spc = "loop"
          /\ Len(gonderim_log) < Len(sirketler)
          /\ LET i == Len(gonderim_log) + 1
                 sirket == sirketler[i]
             IN  \E dil \in {turkce, ingilizce} :
                     /\ sayac' = count_outcome(sayac, "sent")
                     /\ store' \in interrupted_rewrites(store, sirket.sirket_adi,
                                                        durum_text(dil))
                     /\ gonderim_log' =
                            Append(gonderim_log,
                                   [pos |-> i, sirket_adi |-> sirket.sirket_adi,
                                    mail |-> sirket.mail, outcome |-> "sent",
                                    dil |-> dil,
                                    updated |->
                                        /\ ~guncelle_raises(store)
                                        /\ store' = csv_durumunu_guncelle(
                                                        store, sirket.sirket_adi,
                                                        durum_text(dil)),
                                    paused |-> FALSE])
    /\ UNCHANGED <<load, companies_df, oku, sirketler>>
    /\ UNCHANGED batchVars
    /\ UNCHANGED runVars
    /\ UNCHANGED messageVars
    /\ UNCHANGED llmVars
    /\ UNCHANGED twoVars

NextStatic ==
    \/ CalistirStart \/ TopluGonderimIteration \/ TopluGonderimDone
    \/ KeyboardInterruptStatic

SpecStatic == InitStatic /\ [][NextStatic]_vars

(***************************************************************************)
(* Two instances of the script on one store.  csv_durumunu_guncelle takes  *)
(* no lock: it reads the whole file (lines 226-231), then rewrites it      *)
(* (lines 234-238).  Each instance has sent to a company of the list and   *)
(* is about to write the status back; the steps of the two interleave.     *)
(***************************************************************************)
\* an instance after a successful send to sirket, before line 290
ready_instance(sirket, dil) ==
    [pc |-> "ready", sirket_adi |-> sirket.sirket_adi, mail |-> sirket.mail,
     durum |-> durum_text(dil), extra_header |-> FALSE, veriler |-> <<>>,
     overlapped |-> FALSE]

InitTwo ==
    /\ store \in [extra_header : BOOLEAN, rows : SeqsUpTo(StaticRowSet, MaxRows)]
    /\ load = "none" /\ companies_df = <<>>
    /\ oku = "none" /\ sirketler = <<>>
    /\ batchIdle
    /\ runIdle
    /\ staticIdle
    /\ messageIdle
    /\ llmIdle
    /\ LET r == csv_dosyasini_oku(store.rows)
           starts == {no_instance} \cup
                         {ready_instance(r.sirketler[k], dil) :
                             k \in 1..Len(r.sirketler),
                             dil \in {turkce, ingilizce}}
       IN  inst \in [Instances -> starts]

\* the other instance is between its read and its rewrite
mid_update(j) == inst[j].pc = "read"

\* lines 225-231: the instance reads every row and sets the status on the
\* rows of its company; the field names are those of the header it read
GuncelleOku(i) ==
    /\ inst[i].pc = "ready"
    /\ inst' = [j \in Instances |->
                   IF j = i
                   THEN [inst[i] EXCEPT
                            !.pc = "read",
                            !.extra_header = store.extra_header,
                            !.veriler = veriler_of(store.rows, inst[i].sirket_adi,
                                                   inst[i].durum),
                            !.overlapped = \E o \in Instances \ {i} : mid_update(o)]
                   ELSE [inst[j] EXCEPT !.overlapped = @ \/ mid_update(j)]]
    /\ UNCHANGED readerVars
    /\ UNCHANGED batchVars
    /\ UNCHANGED runVars
    /\ UNCHANGED staticVars
    /\ UNCHANGED messageVars
    /\ UNCHANGED llmVars

\* lines 234-238: the instance rewrites the file from the rows it read; an
\* error is logged and swallowed (lines 240-241)
GuncelleYaz(i) ==
    /\ inst[i].pc = "read"
    /\ store' = [extra_header |-> FALSE,
                 rows |-> rewrite(inst[i].extra_header, inst[i].veriler)]
    /\ inst' = [inst EXCEPT ![i].pc = "done"]
    /\ UNCHANGED <<load, companies_df, oku, sirketler>>
    /\ UNCHANGED batchVars
    /\ UNCHANGED runVars
    /\ UNCHANGED staticVars
    /\ UNCHANGED messageVars
    /\ UNCHANGED llmVars

NextTwo == \E i \in Instances : GuncelleOku(i) \/ GuncelleYaz(i)

SpecTwo == InitTwo /\ [][NextTwo]_vars

(***************************************************************************)
(* Message composition and one send: EmailSender.send_application_email    *)
(* with _create_email_message (LLM variant) and                            *)
(* StajBasvuruOtomasyonu.eposta_gonder with cv_dosyasini_ekle (static).    *)
(***************************************************************************)
\* calls of the send functions that are recorded
MaxCalls == 2

\* '[AD SOYAD]'
AD_SOYAD == <<"[", "A", "D", " ", "S", "O", "Y", "A", "D", "]">>

\* str.replace(old, new) for a non-empty old: the occurrences are found from
\* the left and do not overlap; the text put in is not searched again
RECURSIVE replace(_, _, _)
replace(s, old, new) ==
    IF Len(s) < Len(old) THEN s
    ELSE IF SubSeq(s, 1, Len(old)) = old
         THEN new \o replace(SubSeq(s, Len(old) + 1, Len(s)), old, new)
         ELSE <<Head(s)>> \o replace(Tail(s), old, new)

\* the resume file as a call finds it: "present", "missing" (the path does
\* not exist), "nopath" (the path is the empty string), "unreadable" (the
\* path exists and open() fails)
CvStates == {"present", "missing", "nopath", "unreadable"}

MessageBodies ==
    {<<"b">>,
     <<"H", "i", " ">> \o AD_SOYAD,
     AD_SOYAD \o <<" ">> \o AD_SOYAD,
     <<"[", "A">> \o AD_SOYAD \o <<" ", "S", "O", "Y", "A", "D", "]">>}

\* a usual name, a name left at the template's value, a one-letter name
ApplicantNames == {<<"A", "l", "i">>, AD_SOYAD, <<"D">>}

no_message == [body |-> <<"<none>">>, attachment |-> FALSE]

\* _create_email_message: the body part carries the personalised body; the
\* resume is attached when the path is set and exists, else a warning is
\* logged; _attach_cv re-raises when the file cannot be read
create_email_message(body, cv, name) ==
    IF cv = "unreadable"
    THEN [raised |-> TRUE, msg |-> no_message]
    ELSE [raised |-> FALSE,
          msg |-> [body |-> replace(body, AD_SOYAD, name),
                   attachment |-> (cv = "present")]]

\* a mutant: a resume that cannot be attached stops the send
cv_dosyasini_ekle_or_skip(cv) == cv # "unreadable"

\* cv_dosyasini_ekle: False when the file does not exist or cannot be read
cv_dosyasini_ekle(cv) == cv = "present"

InitMessage ==
    /\ readerIdle
    /\ batchIdle
    /\ runIdle
    /\ staticIdle
    /\ llmIdle
    /\ twoIdle
    /\ cv_path \in CvStates
    /\ email_body \in MessageBodies
    /\ applicant_name \in ApplicantNames
    /\ mail_calls = <<>>

\* send_application_email (lines 79-112): compose, connect to the relay,
\* send; every error ends the call with False
SendApplicationEmail ==
    /\ Len(mail_calls) < MaxCalls
    /\ LET c == create_email_message(email_body, cv_path, applicant_name)
       IN  IF c.raised
           THEN mail_calls' =
                    Append(mail_calls,
                           [variant |-> "llm", cv |-> cv_path, msg |-> c.msg,
                            connected |-> FALSE, result |-> FALSE])
           ELSE \E smtp_ok \in BOOLEAN :
                    mail_calls' =
                        Append(mail_calls,
                               [variant |-> "llm", cv |-> cv_path,
                                msg |-> c.msg, connected |-> TRUE,
                                result |-> smtp_ok])
    /\ UNCHANGED <<cv_path, email_body, applicant_name>>
    /\ UNCHANGED readerVars
    /\ UNCHANGED batchVars
    /\ UNCHANGED runVars
    /\ UNCHANGED staticVars
    /\ UNCHANGED llmVars
    /\ UNCHANGED twoVars

\* eposta_gonder (lines 191-219): the body is attached as it is, then the
\* resume; without the resume the call returns False before smtplib.SMTP
EpostaGonder ==
    /\ Len(mail_calls) < MaxCalls
    /\ IF ~cv_dosyasini_ekle(cv_path)
       THEN mail_calls' =
                Append(mail_calls,
                       [variant |-> "static", cv |-> cv_path,
                        msg |-> [body |-> email_body, attachment |-> FALSE],
                        connected |-> FALSE, result |-> FALSE])
       ELSE \E smtp_ok \in BOOLEAN :
                mail_calls' =
                    Append(mail_calls,
                           [variant |-> "static", cv |-> cv_path,
                            msg |-> [body |-> email_body, attachment |-> TRUE],
                            connected |-> TRUE, result |-> smtp_ok])
    /\ UNCHANGED <<cv_path, email_body, applicant_name>>
    /\ UNCHANGED readerVars
    /\ UNCHANGED batchVars
    /\ UNCHANGED runVars
    /\ UNCHANGED staticVars
    /\ UNCHANGED llmVars
    /\ UNCHANGED twoVars

\* between two calls the resume file is removed, restored or locked
CvFileChanges ==
    /\ Len(mail_calls) < MaxCalls
    /\ cv_path' \in CvStates \ {cv_path}
    /\ UNCHANGED <<email_body, applicant_name, mail_calls>>
    /\ UNCHANGED readerVars
    /\ UNCHANGED batchVars
    /\ UNCHANGED runVars
    /\ UNCHANGED staticVars
    /\ UNCHANGED llmVars
    /\ UNCHANGED twoVars

NextMessage == SendApplicationEmail \/ EpostaGonder \/ CvFileChanges

SpecMessage == InitMessage /\ [][NextMessage]_vars

(***************************************************************************)
(* Properties of the record readers (SpecRead).                            *)
(***************************************************************************)
InSeq(x, q) == \E k \in 1..Len(q) : q[k] = x

\* 'sent'
sent_word == <<"s", "e", "n", "t">>

\* the status text carries a 'sent' marker, in any letter case
has_sent_marker(durum) ==
    /\ durum # NaN
    /\ \/ contains(lower(durum), sent_word)
       \/ contains(lower(durum), gonderildi)

\* the e-mail cell is empty, only whitespace, or a placeholder sentinel
blank_or_placeholder(mail) ==
    mail = NaN \/ strip(mail) = <<>> \/ mail \in Placeholders

\* C5: DataProcessor.load_and_clean_data never returns a row whose status
\* field contains a 'sent' marker, in any letter case.
C5_NoSentRowReturned ==
    load = "ok" =>
        \A k \in 1..Len(companies_df) : ~has_sent_marker(companies_df[k].durum)

\* C6: neither record reader returns a row whose e-mail is empty, only
\* whitespace, or one of the placeholder sentinels 'TalepForm', 'Talep Form'.
C6_NoBlankOrPlaceholderEmail ==
    /\ load = "ok" =>
          \A k \in 1..Len(companies_df) :
              /\ ~blank_or_placeholder(companies_df[k].mail)
              /\ ~blank_or_placeholder(store.rows[companies_df[k].src].mail)
    /\ oku = "ok" =>
          \A k \in 1..Len(sirketler) :
              /\ ~blank_or_placeholder(sirketler[k].mail)
              /\ ~blank_or_placeholder(store.rows[sirketler[k].src].mail)

\* C6 witness: both readers have run on a store that holds a blank e-mail and
\* a placeholder e-mail next to a sendable row, and both returned rows.
C6_Witness ==
    /\ load = "ok" /\ oku = "ok"
    /\ companies_df # <<>> /\ sirketler # <<>>
    /\ \E k \in 1..Len(store.rows) : strip(store.rows[k].mail) = <<>>
    /\ \E k \in 1..Len(store.rows) : store.rows[k].mail \in Placeholders

\* C7: the list returned by csv_dosyasini_oku holds no two records with the
\* same e-mail address.
C7_NoDuplicateEmailStatic ==
    oku = "ok" =>
        \A j, k \in 1..Len(sirketler) :
            j # k => sirketler[j].mail # sirketler[k].mail

\* an input row that reaches the deduplication step of _clean_data: name and
\* e-mail are present and the stripped e-mail has the address syntax
reaches_dedup(row) ==
    /\ read_cell(row.sirket_adi) # NaN
    /\ read_cell(row.mail) # NaN
    /\ clean_text(row.mail) # NaN
    /\ clean_text(row.mail) # <<>>
    /\ email_pattern(clean_text(row.mail))

\* C8: load_and_clean_data deduplicates by e-mail keeping the first
\* occurrence: for every e-mail of a valid input row exactly one row with that
\* e-mail is returned, it is the earliest such input row, and the returned
\* rows keep their input order.
C8_DedupKeepsFirst ==
    load = "ok" =>
        LET rows == store.rows
            valid == {k \in 1..Len(rows) : reaches_dedup(rows[k])}
            addr(k) == clean_text(rows[k].mail)
            first(k) == \A j \in valid : addr(j) = addr(k) => k <= j
        IN  /\ \A k \in valid :
                  /\ Cardinality({j \in 1..Len(companies_df) :
                                    companies_df[j].mail = addr(k)}) = 1
                  /\ first(k) <=> \E j \in 1..Len(companies_df) :
                                     companies_df[j].src = k
            /\ \A j \in 1..Len(companies_df) :
                  /\ companies_df[j].src \in valid
                  /\ companies_df[j].mail = addr(companies_df[j].src)
            /\ \A i, j \in 1..Len(companies_df) :
                  i < j => companies_df[i].src < companies_df[j].src

\* C8 witness: two valid input rows of different companies share an e-mail
\* (one written with a leading blank) and the reader has returned.
C8_Witness ==
    /\ load = "ok"
    /\ Len(store.rows) >= 2
    /\ reaches_dedup(store.rows[1]) /\ reaches_dedup(store.rows[2])
    /\ store.rows[1].mail # store.rows[2].mail
    /\ clean_text(store.rows[1].mail) = clean_text(store.rows[2].mail)
    /\ store.rows[1].sirket_adi # store.rows[2].sirket_adi
    /\ Len(companies_df) = 1

\* C9: load_and_clean_data never returns a row whose company name is empty
\* or only whitespace (also as get_company_info hands it on).
C9_NoBlankName ==
    load = "ok" =>
        \A k \in 1..Len(companies_df) :
            /\ companies_df[k].sirket_adi # NaN
            /\ strip(companies_df[k].sirket_adi) # <<>>
            /\ get_company_info(companies_df, k).sirket_adi # <<>>

(***************************************************************************)
(* Properties of send_batch_emails (SpecBatch).                            *)
(***************************************************************************)
\* C1: for input lists of equal length every recipient is attempted exactly
\* once and in input order whatever the earlier outcomes: the batch never
\* terminates early and no recipient is retried.
C1_EveryRecipientAttemptedOnce ==
    /\ \A k \in 1..Len(processed) : processed[k] = k
    /\ \A j, k \in 1..Len(send_calls) :
           j < k => send_calls[j].pos < send_calls[k].pos
    /\ (bpc \in {"returned", "raised"}
        /\ Len(companies_data) = Len(email_bodies)
        /\ Len(companies_data) > 0)
          => Len(processed) = Len(companies_data)

\* C2: after each recipient and at return total_sent + total_failed is the
\* number of recipients attempted so far, total_sent is the length of the
\* successful list and total_failed the length of the failed list.
C2_TotalsMatchAttempts ==
    /\ results.total_sent + results.total_failed = Len(processed)
    /\ results.total_sent = Len(results.successful)
    /\ results.total_failed = Len(results.failed)

\* C3: the successful and failed lists are disjoint: a recipient whose send
\* failed is named in failed and not in successful, one whose send succeeded
\* is named in successful and not in failed.
C3_SuccessfulFailedDisjoint ==
    /\ \A x \in {results.successful[k] : k \in 1..Len(results.successful)} :
           ~InSeq(x, results.failed)
    /\ \A k \in 1..Len(send_calls) :
           LET nm == companies_data[send_calls[k].pos].sirket_adi
           IN  IF send_calls[k].ok
               THEN InSeq(nm, results.successful) /\ ~InSeq(nm, results.failed)
               ELSE InSeq(nm, results.failed) /\ ~InSeq(nm, results.successful)

(***************************************************************************)
(* Properties of the orchestrator (SpecRun).                               *)
(***************************************************************************)
\* C4: in run() no application e-mail is sent before the operator confirmed
\* at the review gate; after a refusal no e-mail is sent at all in that run;
\* an unrecognised answer only re-prompts.
C4_NoSendBeforeReview ==
    /\ []((send_calls # <<>> \/ bpc # "idle") => review = "confirmed")
    /\ [](review = "declined" =>
             send_calls = <<>> /\ bpc = "idle" /\ rpc = "exited")
    /\ [][(rpc = "review" /\ ~interrupted'
            /\ lower(response') \notin (yes_answers \cup no_answers))
            => (rpc' = "review" /\ review' = "pending"
                /\ send_calls' = send_calls /\ bpc' = bpc)]_vars

\* C4 witness: the operator first typed an unrecognised answer, then
\* confirmed, and a send has been attempted.
C4_Witness ==
    /\ review = "confirmed" /\ prompts >= 2
    /\ send_calls # <<>>

(***************************************************************************)
(* Properties of the static variant (SpecStatic).                          *)
(***************************************************************************)
\* the store marks the company of a log entry as sent
marked_sent(e) ==
    \E k \in 1..Len(store.rows) :
        /\ strip(store.rows[k].sirket_adi) = e.sirket_adi
        /\ strip(store.rows[k].mail) = e.mail
        /\ has_sent_marker(store.rows[k].durum)

\* C10: the status of a successfully sent company is written to the store
\* before the next send is attempted, so at every point of the run at most
\* one successfully sent company is not yet marked as sent in the store.
C10_AtMostOneSentUnmarked ==
    Cardinality({k \in 1..Len(gonderim_log) :
                    /\ gonderim_log[k].outcome = "sent"
                    /\ ~marked_sent(gonderim_log[k])}) <= 1

\* the states one row may be in around a status update to durum: as it was,
\* as DictWriter writes it back unchanged, or written back with the new status
row_before_or_after(row) ==
    {row, written(row)}
        \cup {written([row EXCEPT !.durum = durum_text(dil)]) :
                 dil \in {turkce, ingilizce}}

\* C11: an interruption at any point of a static-variant run, also in the
\* middle of csv_durumunu_guncelle, never corrupts the store: the store
\* still holds every row it held, each row in its state before or after the
\* status update, and the process exits with code 0.
C11_InterruptionKeepsStore ==
    [][spc' = "interrupted" =>
          /\ static_exit' = 0
          /\ Len(store'.rows) = Len(store.rows)
          /\ \A k \in 1..Len(store.rows) :
                 store'.rows[k] \in row_before_or_after(store.rows[k])]_vars

\* C12: csv_durumunu_guncelle(name, status) changes only the status field of
\* the rows whose company name equals name: no row is dropped or added, the
\* order of rows and the columns stay, every other field of every row stays,
\* for every content of the store (rows with an empty name, stores with an
\* additional column).
C12_UpdateChangesOnlyStatus ==
    [][(spc' = "loop" /\ Len(gonderim_log') > Len(gonderim_log)
        /\ gonderim_log'[Len(gonderim_log')].outcome = "sent") =>
          LET e == gonderim_log'[Len(gonderim_log')]
          IN  /\ Len(store'.rows) = Len(store.rows)
              /\ store'.extra_header = store.extra_header
              /\ \A k \in 1..Len(store.rows) :
                     LET old == store.rows[k]
                         new == store'.rows[k]
                     IN  IF strip(old.sirket_adi) = e.sirket_adi
                         THEN new = written([old EXCEPT
                                                !.durum = durum_text(e.dil)])
                         ELSE new \in {old, written(old)}]_vars

(***************************************************************************)
(* Properties of message composition (SpecMessage).                        *)
(***************************************************************************)
\* the recorded calls of send_application_email that composed a message
composed_calls ==
    {k \in 1..Len(mail_calls) :
        mail_calls[k].variant = "llm" /\ mail_calls[k].msg # no_message}

\* how often '[AD SOYAD]' occurs in s (its occurrences cannot overlap)
occurrences(s) ==
    Cardinality({k \in 1..Len(s) :
                    /\ k + Len(AD_SOYAD) - 1 <= Len(s)
                    /\ SubSeq(s, k, k + Len(AD_SOYAD) - 1) = AD_SOYAD})

\* C13: for every generated body, the body EmailSender places in
\* the message handed to the relay contains no occurrence of '[AD SOYAD]'.
C13_NoPlaceholderInMessage ==
    \A k \in composed_calls : ~contains(mail_calls[k].msg.body, AD_SOYAD)

\* C17: a missing resume file is handled the same way on every call:
\* eposta_gonder reports failure and never connects to the relay;
\* _create_email_message returns a message with the body and no attachment
\* and the send proceeds to the relay.
C17_MissingCvHandledUniformly ==
    \A k \in 1..Len(mail_calls) :
        LET c == mail_calls[k]
        IN  c.cv \in {"missing", "nopath"} =>
                IF c.variant = "static"
                THEN ~c.result /\ ~c.connected
                ELSE /\ c.msg # no_message
                     /\ c.msg.body # <<>>
                     /\ occurrences(email_body) = 0 => c.msg.body = email_body
                     /\ ~c.msg.attachment
                     /\ c.connected

\* C17 witness: both send functions were called while the resume was missing.
C17_Witness ==
    /\ Len(mail_calls) = 2
    /\ mail_calls[1].cv = "missing" /\ mail_calls[2].cv = "missing"
    /\ mail_calls[1].variant # mail_calls[2].variant

(***************************************************************************)
(* Properties of LLMManager text generation (SpecLlm).                     *)
(***************************************************************************)
\* the endpoint did not answer a request
no_reply(r) == r.kind \in {"unreachable", "timeout"}

\* the endpoint answered a request with a status outside 200..299
non_2xx(r) == r.kind = "reply" /\ ~(r.status \in 200..299)

\* what went wrong with the answers a: nothing ("ok": a 2xx answer that
\* carries a 'response' field), the connection, the HTTP status, the format
cause_of(a) ==
    IF no_reply(a.tags) THEN "connection"
    ELSE IF non_2xx(a.tags) THEN "http"
    ELSE IF no_reply(a.post) THEN "connection"
    ELSE IF non_2xx(a.post) THEN "http"
    ELSE IF ~a.post.payload.json \/ ~a.post.payload.has_response THEN "format"
    ELSE "ok"

\* C18: text generation reports three distinguishable failure kinds: a
\* connection error when the endpoint is unreachable or times out, an HTTP
\* error for a non-2xx status, a format error when the answer cannot be
\* parsed or has no 'response' field; every 2xx answer that carries a
\* 'response' field yields text and no error.  The kind is the class of the
\* exception generate_email_body raises.
C18_ThreeFailureKinds ==
    generation # no_generation =>
        LET cause == cause_of(answer)
        IN  /\ cause = "ok" => generation.kind = "text"
            /\ cause = "connection" => generation.kind = "ConnectionError"
            /\ cause \in {"http", "format"} =>
                   /\ generation.kind \notin {"text", "ConnectionError"}
                   /\ \A b \in [tags : TagsAnswers, post : PostAnswers] :
                          (cause_of(b) \in {"http", "format"} \ {cause}) =>
                              generate_email_body(b).kind # generation.kind

(***************************************************************************)
(* Properties of generation, start-up and exit codes (SpecRun) and of      *)
(* pacing (SpecBatch).                                                     *)
(***************************************************************************)
\* C14: in generate_emails a generation failure for one company (the
\* endpoint unreachable, a server error, a failed save) is recorded as an
\* empty body for that company and does not stop the loop: every later
\* company is still processed and the loop ends with one entry per company.
C14_FailedGenerationIsEmptyBody ==
    /\ Len(gen_log) = Len(generated_emails)
    /\ Len(generated_emails) <= Len(companies_df)
    /\ \A k \in 1..Len(gen_log) :
           gen_log[k] # "text" => generated_emails[k] = <<>>
    /\ (rpc \in {"review", "send", "sending"}
        \/ (rpc = "exited" /\ load = "ok" /\ ~interrupted))
          => Len(generated_emails) = Len(companies_df)

\* C14 witness: the endpoint was unreachable for the first company, the
\* second company got its body and the loop has ended.
C14_Witness ==
    /\ rpc = "review"
    /\ Len(gen_log) = 2
    /\ gen_log[1] = "ConnectionError" /\ gen_log[2] = "text"
    /\ generated_emails = <<<<>>, body_for(2)>>

\* C15: no per-item error terminates the run: for every subset of companies
\* whose generation or send fails (all of them included) run() reaches its
\* end without a fatal error and prints the batch summary.
C15_PerItemErrorsNeverFatal ==
    (rpc = "exited" /\ review = "confirmed" /\ ~interrupted) =>
        (exit_code = 0 /\ bpc = "returned")

C20_ExitCodes ==
    rpc = "exited" =>
        LET user_stop == interrupted \/ review = "declined"
            completed == bpc = "returned"
        IN  exit_code = 0 <=> (user_stop \/ completed)

\* C16: for input lists of equal length a pacing pause occurs after every
\* send attempt except the last one, whether the attempt succeeded or
\* failed, and none after the last.
C16_PauseAfterEveryAttemptButLast ==
    Len(companies_data) = Len(email_bodies) =>
        \A c \in {send_calls[k] : k \in 1..Len(send_calls)} :
            LET pauses == {j \in 1..Len(sleeps) : sleeps[j].after = c.pos}
                over == Len(processed) > c.pos \/ bpc \in {"returned", "raised"}
            IN  /\ c.pos = Len(companies_data) => pauses = {}
                /\ (c.pos < Len(companies_data) /\ over) =>
                       Cardinality(pauses) = 1

\* C21: computing the success rate of the batch summary never fails when
\* both totals are zero: the summary at the end of send_batch_emails
\* completes without a division error for an empty batch.
C21_SummaryOfEmptyBatchCompletes ==
    (bpc \in {"returned", "raised"}
     /\ results.total_sent + results.total_failed = 0)
        => bpc = "returned"

\* C28: the pause that follows a recipient lasts delay_seconds when its send
\* succeeded; after a failed recipient it lasts one fixed value, the same for
\* a send that reports failure and for an error raised while the recipient
\* is handled.
C28_FailuresPacedAlike ==
    LET sent_ok(p) == \E k \in 1..Len(send_calls) :
                          send_calls[k].pos = p /\ send_calls[k].ok
    IN  /\ \A j \in 1..Len(sleeps) :
               (sent_ok(sleeps[j].after) /\ sleeps[j].on = "sent") =>
                   sleeps[j].secs = delay_seconds
        /\ \A i, j \in 1..Len(sleeps) :
               (~sent_ok(sleeps[i].after) /\ ~sent_ok(sleeps[j].after)) =>
                   sleeps[i].secs = sleeps[j].secs

\* how many times the token c stands in the text s
count_token(s, c) == Cardinality({k \in 1..Len(s) : s[k] = c})

\* C22: _create_prompt inserts at most one interest clause and the first
\* matching keyword wins: no clause when the upper-cased notes contain no
\* keyword, the drone clause whenever they contain DRONE (also together with
\* ATATURKCU), the Ataturk clause only when they contain ATATURKCU and not
\* DRONE.
C22_FirstMatchingKeywordWins ==
    prompt # <<>> =>
        LET notes == upper(company_info.notlar)
            drone == count_token(prompt, "<drone teknolojileri>")
            ataturk == count_token(prompt, "<Ataturk'un ilke ve degerleri>")
            has_drone == contains(notes, <<"D", "R", "O", "N", "E">>)
            has_ataturk ==
                contains(notes,
                         <<"A", "T", "A", "T", "U:", "R", "K", "C,", "U:">>)
        IN  /\ drone + ataturk <= 1
            /\ (~has_drone /\ ~has_ataturk) => drone + ataturk = 0
            /\ has_drone => drone = 1
            /\ ataturk = 1 <=> (has_ataturk /\ ~has_drone)

\* a prompt was built for notes that name both keywords, the second keyword
\* of the code standing first in the notes
C22_Witness ==
    /\ prompt # <<>>
    /\ contains(upper(company_info.notlar), <<"D", "R", "O", "N", "E">>)
    /\ contains(upper(company_info.notlar),
                <<"A", "T", "A", "T", "U:", "R", "K", "C,", "U:">>)
    /\ count_token(prompt, "<drone teknolojileri>") = 1

\* the m-th smallest element of a set of numbers
nth(S, m) == CHOOSE x \in S : Cardinality({y \in S : y <= x}) = m

\* C23: _clean_response collapses every run of blank lines that separates
\* two kept text lines to exactly one blank line: two paragraphs separated
\* by one or more blank lines in the raw text are separated by a single
\* blank line in the cleaned text.
C23_BlankRunsBecomeOneBlankLine ==
    generation.kind = "text" =>
        LET raw_lines == split_lines(strip(answer.post.payload.response), <<>>)
            kept == {i \in 1..Len(raw_lines) :
                        filter_lines(<<raw_lines[i]>>) # <<>>}
            out_lines == split_lines(generation.text, <<>>)
            text == {i \in 1..Len(out_lines) : strip(out_lines[i]) # <<>>}
        IN  \A i, j \in kept :
                (/\ i + 1 < j
                 /\ \A k \in (i + 1)..(j - 1) : strip(raw_lines[k]) = <<>>)
                    => LET m == Cardinality({k \in kept : k <= i})
                       IN  /\ Cardinality(text) = Cardinality(kept)
                           /\ nth(text, m + 1) - nth(text, m) = 2

\* C26: every (company, body) pair handed to send_batch_emails is a sendable
\* company together with the non-empty body that was generated for that
\* company; a company whose generation failed is never sent to, and no
\* company receives a body generated for another company.
C26_EachCompanyGetsItsOwnBody ==
    LET company(k) == get_company_info(companies_df, k)
        generated(k) == gen_log[k] = "text" /\ generated_emails[k] # <<>>
        own_body(k) == <<"body", ToString(k)>>
    IN  (rpc \in {"sending", "exited"} /\ bpc # "idle") =>
            /\ Len(companies_data) = Len(email_bodies)
            /\ \A i \in 1..Len(companies_data) :
                   \E k \in 1..Len(companies_df) :
                       /\ companies_data[i] = company(k)
                       /\ generated(k)
                       /\ email_bodies[i] = own_body(k)
            /\ \A c \in 1..Len(send_calls) :
                   \E k \in 1..Len(companies_df) :
                       /\ send_calls[c].to = company(k).email
                       /\ generated(k)
                       /\ send_calls[c].body = own_body(k)

\* a send took place after the generation for an earlier company had failed
C26_Witness ==
    /\ \E k \in 1..Len(gen_log) :
           /\ gen_log[k] # "text"
           /\ \E j \in (k + 1)..Len(gen_log) : gen_log[j] = "text"
    /\ \E c \in 1..Len(send_calls) : send_calls[c].pos = 1 /\ send_calls[c].ok

\* the entries of the log with the given outcome
log_count(what) ==
    Cardinality({k \in 1..Len(gonderim_log) : gonderim_log[k].outcome = what})

\* a send was attempted for the k-th company of the loop: a language was
\* chosen for it
attempted(k) == gonderim_log[k].dil # <<>>

\* C24: after each company of toplu_gonderim_yap has been processed and at
\* the end, successful + failed + skipped equals the number of companies
\* processed and successful + failed equals the number of send attempts; a
\* skipped company is counted neither as sent nor as failed and no send is
\* attempted for it.
C24_CountersPartitionTheCompanies ==
    spc \in {"loop", "done"} =>
        /\ sayac.basarili + sayac.basarisiz + sayac.atlanan = Len(gonderim_log)
        /\ sayac.basarili + sayac.basarisiz =
               Cardinality({k \in 1..Len(gonderim_log) : attempted(k)})
        /\ sayac.basarili = log_count("sent")
        /\ sayac.basarisiz = log_count("failed")
        /\ sayac.atlanan = log_count("skipped")
        /\ \A k \in 1..Len(gonderim_log) :
               gonderim_log[k].outcome = "skipped" => ~attempted(k)

\* the loop has ended with a company skipped, one sent to and one failed
C24_Witness ==
    /\ spc = "done"
    /\ log_count("skipped") > 0 /\ log_count("sent") > 0
    /\ log_count("failed") > 0

\* the company e (name and address) has been sent to successfully
sent_to(e) ==
    \E k \in 1..Len(gonderim_log) :
        /\ gonderim_log[k].outcome = "sent"
        /\ gonderim_log[k].sirket_adi = e.sirket_adi
        /\ gonderim_log[k].mail = e.mail

\* the company e is in the list q of companies
listed(e, q) ==
    \E j \in 1..Len(q) : q[j].sirket_adi = e.sirket_adi /\ q[j].mail = e.mail

\* C25: after a successful send to a company and a csv_durumunu_guncelle
\* that completed without error, every later csv_dosyasini_oku on the store
\* excludes that company, whichever language was chosen, and still returns
\* every company that was sendable before and has not been sent.
C25_ResumeSkipsSentKeepsUnsent ==
    LET later == csv_dosyasini_oku(store.rows).sirketler
        sent_and_updated ==
            {k \in 1..Len(gonderim_log) :
                gonderim_log[k].outcome = "sent" /\ gonderim_log[k].updated}
    IN  (spc \in {"loop", "done"} /\ sent_and_updated # {}) =>
            /\ \A k \in sent_and_updated : ~listed(gonderim_log[k], later)
            /\ \A i \in 1..Len(sirketler) :
                   ~sent_to(sirketler[i]) => listed(sirketler[i], later)

\* C27: a row of the store is changed to a 'sent' status only if an e-mail
\* was successfully sent to that row's own address in this run: skipped
\* companies, failed companies and rows that merely share the company name
\* keep their status.
C27_OnlyTheSentRowIsMarked ==
    [][\A k \in 1..Len(store'.rows) :
           (/\ k <= Len(store.rows)
            /\ store'.rows[k].durum # store.rows[k].durum
            /\ has_sent_marker(store'.rows[k].durum))
               => /\ Len(gonderim_log') = Len(gonderim_log) + 1
                  /\ LET e == gonderim_log'[Len(gonderim_log')]
                     IN  /\ e.outcome = "sent"
                         /\ strip(store.rows[k].sirket_adi) = e.sirket_adi
                         /\ strip(store.rows[k].mail) = e.mail]_vars

\* C29: in toplu_gonderim_yap a pacing pause lies between every two
\* consecutive send attempts, whatever the outcome of the earlier one.
C29_PauseBetweenConsecutiveAttempts ==
    \A i, j \in 1..Len(gonderim_log) :
        (/\ i < j /\ attempted(i) /\ attempted(j)
         /\ \A k \in (i + 1)..(j - 1) : ~attempted(k))
            => gonderim_log[i].paused

\* the store carries a 'sent' status on the row of the company instance i
\* has sent to
marked_by(i) ==
    \E k \in 1..Len(store.rows) :
        /\ strip(store.rows[k].sirket_adi) = inst[i].sirket_adi
        /\ strip(store.rows[k].mail) = inst[i].mail
        /\ has_sent_marker(store.rows[k].durum)

\* both instances have written their status back, their read and rewrite
\* steps interleaved, and the status of instance 1 is no longer in the store
lost_by_interleaving ==
    /\ \A i \in Instances : inst[i].pc = "done" /\ inst[i].overlapped
    /\ ~marked_by(1) /\ marked_by(2)

\* C30: csv_durumunu_guncelle has no mutual exclusion: with two instances
\* interleaving their read and rewrite steps a status written by one can be
\* overwritten by the other and lost, while with a single instance no status
\* update of a successful send is ever lost.
C30_SingleInstanceLosesNoUpdate ==
    \A i \in Instances :
        (/\ inst[i].pc = "done"
         /\ \A o \in Instances \ {i} : inst[o].pc = "off")
            => marked_by(i)

====
